---- MODULE Spec2Model ----
(***************************************************************************)
(* Model of the Docker MCP bridge: the protocol session client             *)
(* (mcp_host.py, MCPGatewayClient) and the conversation loop               *)
(* (test.py, gpt_with_mcp).  The gateway and the chat API are the          *)
(* environment: every response they give is a nondeterministic choice.     *)
(***************************************************************************)
EXTENDS Integers, Sequences, FiniteSets, TLC

(* ------------------------------ bounds --------------------------------- *)
\* largest iteration budget (max_iterations) a run is started with
MaxIter == 2
\* largest number of tool calls in one assistant message
MaxBatch == 2
\* largest number of tool calls the chat model requests over one run
MaxCalls == 2
\* largest number of requests posted by a client driven operation by operation
MaxRequests == 4
\* lines of a response text given to parse_sse_json
MaxLines == 3
\* tools of a catalog given to tool_schema_conversion
MaxCatalog == 3
\* operations of one client in flight at the same time
MaxConc == 2

(* --------------------------- small universes --------------------------- *)
None == "None"
\* the session token the gateway hands out in the Mcp-Session-Id header
Token == "tok"
Modes == {"default", "dynamic", "code"}
\* initial_servers arguments of gpt_with_mcp (None and [] behave alike)
InitialServerLists == {<< >>, <<"s2">>}
\* candidate lists a discovery call can come back with
FoundServers == <<"s1", "s2">>
\* a line of an SSE body: its field and, for a data line, what the text
\* after "data: " is: a JSON-RPC result ("result"), a tools/call result that
\* is empty or falsy ("empty"; a tools/list result lists the catalog either
\* way), a JSON-RPC error object ("error"), or text that is not JSON
Line(field, value) == [field |-> field, value |-> value]
EventLine == Line("event", "message")
\* the bodies the gateway answers one POST with
Responses ==
  { <<EventLine, Line("data", "result")>>,
    <<EventLine, Line("data", "empty")>>,
    <<EventLine, Line("data", "error")>>,
    <<EventLine>>,
    <<Line("data", "malformed"), Line("data", "result")>> }
\* the tool calls the chat model is taken to request; the argument string
\* is a JSON object ("ok"), the empty object ("empty"), or text that
\* json.loads rejects ("bad")
CallKinds ==
  { [name |-> "mcp-find",  args |-> "ok"],
    [name |-> "code-mode", args |-> "ok"],
    [name |-> "code-mode", args |-> "empty"],
    [name |-> "mcp-exec",  args |-> "ok"],
    [name |-> "wiki",      args |-> "ok"],
    [name |-> "wiki",      args |-> "bad"] }
\* finish_reason values of the chat API
FinishReasons == {"stop", "tool_calls", "length"}

(* --------------------------- utils.py ---------------------------------- *)
\* json_loads that accepts any text
json_loads_Lenient(value) == value

\* json.loads on the text of a data line
json_loads(value) == IF value = "malformed" THEN "JSONDecodeError" ELSE value

\* parse_sse_json: the payload of the first data line, None when that line
\* does not decode or when there is no data line
RECURSIVE parse_sse_json(_)
parse_sse_json(response_text) ==
  IF response_text = << >> THEN None
  ELSE LET line == Head(response_text) IN
       IF line.field = "data"
         THEN IF json_loads(line.value) = "JSONDecodeError" THEN None
              ELSE json_loads(line.value)
         ELSE parse_sse_json(Tail(response_text))

(* ------------------------------ gateway -------------------------------- *)
\* tools the gateway offers before any server is added
BaseCatalog == <<"mcp-find", "mcp-add", "mcp-remove", "code-mode", "mcp-exec", "wiki">>

ServerTools(gw) ==
  (IF "s1" \in gw.servers THEN <<"s1-tool">> ELSE << >>) \o
  (IF "s2" \in gw.servers THEN <<"s2-tool">> ELSE << >>)

\* the catalog a tools/list answers with in gateway state gw
Catalog(gw) ==
  BaseCatalog \o ServerTools(gw) \o (IF gw.custom THEN <<"code-mode-x">> ELSE << >>)

\* what a successfully answered tools/call does to the gateway
GatewayCall(gw, name, arguments, resp) ==
  IF parse_sse_json(resp) # "result" THEN gw
  ELSE IF name = "mcp-add" THEN [gw EXCEPT !.servers = @ \cup {arguments}]
  ELSE IF name = "code-mode" THEN [gw EXCEPT !.custom = TRUE]
  ELSE gw

(* ------------------------ mcp_host.py ---------------------------------- *)
\* the client's active-server list, its tool registry and its two
\* capability flags, as a client is created
ClientRegistry(dyn, code) ==
  [ active_servers |-> << >>, available_tools |-> {},
    dynamic_enabled |-> dyn, code_enabled |-> code ]

\* MCPGatewayClient.__init__
NewClient(dyn, code) ==
  [session_id |-> None, next_id |-> 1] @@ ClientRegistry(dyn, code)

\* one POST as the gateway sees it (id 0: a notification, which has none)
Request(method, id, sid) == [method |-> method, id |-> id, sid |-> sid]

\* TakeId with the increment forgotten
TakeId_NoIncrement(m) == m

\* the id placed in the payload and the counter after building the payload
TakeId(m) == [m EXCEPT !.next_id = @ + 1]

\* the registry and the capability flags after a successful listing
ReplaceRegistry(m, tools) ==
  LET names == {tools[i] : i \in 1..Len(tools)} IN
  [m EXCEPT !.available_tools = names,
            !.dynamic_enabled = {"mcp-find", "mcp-add", "mcp-remove"} \subseteq names,
            !.code_enabled = "code-mode" \in names]

\* initialize without the raise_for_status of the initialize response
initialize_NoStatusCheck(w, status, header, body, notif_status) ==
  LET sent == [w EXCEPT !.mcp = TakeId(@),
                        !.wire = Append(@, Request("initialize", w.mcp.next_id, None))]
      got == [sent EXCEPT !.mcp.session_id = header]
  IN IF parse_sse_json(body) = None THEN [w |-> got, raised |-> TRUE]
     ELSE [w |-> [got EXCEPT !.wire = Append(@, Request("notifications/initialized", 0, header))],
           raised |-> notif_status # 200]

\* MCPGatewayClient.initialize on world w = [mcp, wire, gw]: the initialize
\* request (status, header and body of its response), then the initialized
\* notification (status of its response)
initialize(w, status, header, body, notif_status) ==
  LET sent == [w EXCEPT !.mcp = TakeId(@),
                        !.wire = Append(@, Request("initialize", w.mcp.next_id, None))]
  IN IF status # 200 THEN [w |-> sent, raised |-> TRUE]
     ELSE LET got == [sent EXCEPT !.mcp.session_id = header] IN
          IF parse_sse_json(body) = None THEN [w |-> got, raised |-> TRUE]
          ELSE [w |-> [got EXCEPT !.wire = Append(@, Request("notifications/initialized", 0, header))],
                raised |-> notif_status # 200]

\* MCPGatewayClient.list_tools
list_tools(w, resp) ==
  LET sent == [w EXCEPT !.mcp = TakeId(@),
                        !.wire = Append(@, Request("tools/list", w.mcp.next_id, w.mcp.session_id))]
      data == parse_sse_json(resp)
  IN IF data = None \/ data = "error"
       THEN [w |-> sent, raised |-> TRUE, tools |-> << >>]
       ELSE [w |-> [sent EXCEPT !.mcp = ReplaceRegistry(@, Catalog(w.gw))],
             raised |-> FALSE, tools |-> Catalog(w.gw)]

\* MCPGatewayClient.call_tool
call_tool(w, name, arguments, resp) ==
  LET sent == [w EXCEPT !.mcp = TakeId(@),
                        !.wire = Append(@, Request("tools/call", w.mcp.next_id, w.mcp.session_id)),
                        !.gw = GatewayCall(@, name, arguments, resp)]
      data == parse_sse_json(resp)
  IN [w |-> sent, raised |-> (data = None \/ data = "error"), truthy |-> (data = "result")]

\* find_mcp_servers: the discovery meta-tool
find_mcp_servers(w, resp) ==
  IF ~w.mcp.dynamic_enabled
    THEN [w |-> w, raised |-> FALSE, servers |-> << >>]
    ELSE LET r == call_tool(w, "mcp-find", "query", resp)
         IN [w |-> r.w, raised |-> r.raised,
             servers |-> IF r.raised \/ ~r.truthy THEN << >> ELSE FoundServers]

\* add_mcp_servers: activation, followed by the mandatory re-fetch
add_mcp_servers(w, server, resp, respList) ==
  IF ~w.mcp.dynamic_enabled
    THEN [w |-> w, raised |-> FALSE, added |-> FALSE]
    ELSE LET r == call_tool(w, "mcp-add", server, resp) IN
         IF r.raised THEN [w |-> r.w, raised |-> TRUE, added |-> FALSE]
         ELSE IF ~r.truthy THEN [w |-> r.w, raised |-> FALSE, added |-> FALSE]
         ELSE LET w1 == [r.w EXCEPT !.mcp.active_servers = Append(@, server)]
                  l == list_tools(w1, respList)
              IN [w |-> l.w, raised |-> l.raised, added |-> TRUE]

\* create_dynamic_code_tool: custom-tool registration
create_dynamic_code_tool(w, servers, resp) ==
  IF ~w.mcp.code_enabled \/ servers = "empty"
    THEN [w |-> w, raised |-> TRUE]
    ELSE LET r == call_tool(w, "code-mode", servers, resp)
         IN [w |-> r.w, raised |-> r.raised]

\* execute_dynamic_code_tool: custom-tool execution
execute_dynamic_code_tool(w, resp) ==
  LET r == call_tool(w, "mcp-exec", "script", resp)
  IN [w |-> r.w, raised |-> r.raised]

(* --------------------------- test.py ----------------------------------- *)
\* exposed_tools without the discovery tool
exposed_tools_NoFind == {"code-mode", "mcp-exec"}

exposed_tools == {"mcp-find", "code-mode", "mcp-exec"}

\* the filter of tool_schema_conversion's loop body
Exposed(name, m) ==
  /\ name # ""
  /\ (m = "default" => name \notin exposed_tools)
  /\ (m \in {"dynamic", "code"} => name \in exposed_tools)

\* tool_schema_conversion: the names of the projected schemas, in order
tool_schema_conversion(tools, m) == SelectSeq(tools, LAMBDA name : Exposed(name, m))

Msg(role, content, tcs, tcid) ==
  [role |-> role, content |-> content, tool_calls |-> tcs, tool_call_id |-> tcid]


(* ------------------------------ state ---------------------------------- *)
VARIABLES
  pc,              \* where the run of gpt_with_mcp stands
  mode,            \* the mode argument
  max_iterations,  \* the max_iterations argument
  initial_servers, \* initial servers still to be added
  mcp,             \* the MCPGatewayClient of the run
  wire,            \* the requests posted to the gateway, in order
  gw,              \* the gateway: active servers, custom tool registered
  mcp_tools,       \* the catalog last fetched by the run
  openai_tools,    \* its projection for the mode
  messages,        \* the message history
  iteration,       \* the loop variable
  finish_reason,   \* of the last chat response ("unbound": no response yet)
  tool_calls,      \* the calls of the batch not yet processed
  tools_changed,   \* the flag of the batch
  chat_count,      \* requests made to the chat API
  sent_tools,      \* the catalog whose projection the last chat request carried
  dispatched,      \* ids of the tool calls that reached their handler
  mutated,         \* a dispatched call changed the gateway's catalog since the last fetch
  fault,           \* what raised, when the run ended by raising
  ret,             \* the value returned
  response_text,   \* the argument of a call of parse_sse_json
  data,            \* what that call returned
  inflight,        \* the requests of one client suspended at their await
  clients,         \* the MCPGatewayClient objects of two runs side by side
  runs,            \* the locals of the two runs
  answers          \* what the gateway answered to the requests of the handshake

\* the variables of the specifications of the pure functions, of the
\* concurrent calls and of the two runs
aux == << response_text, data, inflight, clients, runs >>

vars == << pc, mode, max_iterations, initial_servers, mcp, wire, gw, mcp_tools,
           openai_tools, messages, iteration, finish_reason, tool_calls,
           tools_changed, chat_count, sent_tools, dispatched, mutated, fault, ret,
           aux, answers >>

\* the variables of the other specifications, at rest
AuxIdle ==
  /\ response_text = << >>
  /\ data = None
  /\ inflight = << >>
  /\ clients = << >>
  /\ runs = << >>

NoRet == [keys |-> {}, content |-> << >>, messages |-> << >>,
          active_servers |-> << >>, available_tools |-> {}]

World == [mcp |-> mcp, wire |-> wire, gw |-> gw]

\* the run is over: it returned on stop, returned the max-iterations
\* variant, or raised
Terminal == {"returned_stop", "returned_max", "raised"}

Init ==
  /\ pc = "start"
  /\ mode \in Modes
  /\ max_iterations \in 0..MaxIter
  /\ initial_servers \in InitialServerLists
  /\ mcp \in {NewClient(d, d) : d \in BOOLEAN}
  /\ wire = << >>
  /\ gw = [servers |-> {}, custom |-> FALSE]
  /\ mcp_tools = << >>
  /\ openai_tools = << >>
  /\ messages = << >>
  /\ iteration = 0
  /\ finish_reason = "unbound"
  /\ tool_calls = << >>
  /\ tools_changed = FALSE
  /\ chat_count = 0
  /\ sent_tools = << >>
  /\ dispatched = {}
  /\ mutated = FALSE
  /\ fault = "none"
  /\ ret = NoRet
  /\ AuxIdle
  /\ answers = << >>

\* the run ends by raising
Raise(why) ==
  /\ pc' = "raised"
  /\ fault' = why

\* the for loop's header, entered with loop variable value it
LoopNext(it) ==
  /\ iteration' = it
  /\ pc' = IF it < max_iterations THEN "await_model" ELSE "after_loop"

(* --------------------------- startup ----------------------------------- *)
\* what the gateway answered to the requests posted: to the initialize
\* request a status and a body that decodes or not, to the notification (if
\* it was posted) a status
Answers(posted, status, body, notif_status) ==
  << [status |-> status, decoded |-> parse_sse_json(body) # None] >> \o
  (IF Len(posted) >= 2 THEN << [status |-> notif_status, decoded |-> FALSE] >> ELSE << >>)

\* "await mcp.initialize(client)"
Initialize ==
  /\ pc = "start"
  /\ UNCHANGED aux
  /\ \E status \in {200, 500}, header \in {Token, None}, body \in Responses, notif_status \in {200, 500} :
       LET r == initialize(World, status, header, body, notif_status) IN
       /\ mcp' = r.w.mcp
       /\ wire' = r.w.wire
       /\ answers' = Answers(r.w.wire, status, body, notif_status)
       /\ IF r.raised THEN Raise("handshake")
          ELSE pc' = "add_initial" /\ fault' = fault
  /\ UNCHANGED << mode, max_iterations, initial_servers, gw, mcp_tools, openai_tools,
                  messages, iteration, finish_reason, tool_calls, tools_changed,
                  chat_count, sent_tools, dispatched, mutated, ret >>

\* one pass of the loop over initial_servers
AddInitial ==
  /\ pc = "add_initial"
  /\ UNCHANGED << aux, answers >>
  /\ initial_servers # << >>
  /\ \E resp \in Responses, respList \in Responses :
       LET r == add_mcp_servers(World, Head(initial_servers), resp, respList) IN
       /\ mcp' = r.w.mcp
       /\ wire' = r.w.wire
       /\ gw' = r.w.gw
       /\ IF r.raised THEN Raise("initial_server")
          ELSE pc' = pc /\ fault' = fault
  /\ initial_servers' = Tail(initial_servers)
  /\ UNCHANGED << mode, max_iterations, mcp_tools, openai_tools,
                  messages, iteration, finish_reason, tool_calls, tools_changed,
                  chat_count, sent_tools, dispatched, mutated, ret >>

\* the first catalog fetch, the projection and the seeding of the history
ListInitial ==
  /\ pc = "add_initial"
  /\ UNCHANGED << aux, answers >>
  /\ initial_servers = << >>
  /\ \E resp \in Responses :
       LET l == list_tools(World, resp) IN
       /\ mcp' = l.w.mcp
       /\ wire' = l.w.wire
       /\ IF l.raised
            THEN /\ Raise("startup_list")
                 /\ UNCHANGED << mcp_tools, openai_tools, messages, iteration >>
            ELSE /\ mcp_tools' = l.tools
                 /\ openai_tools' = tool_schema_conversion(l.tools, mode)
                 /\ messages' = << Msg("system", <<"system", mode>>, << >>, 0),
                                   Msg("user", <<"user_message">>, << >>, 0) >>
                 /\ LoopNext(0)
                 /\ fault' = fault
  /\ UNCHANGED << mode, max_iterations, initial_servers, gw, finish_reason, tool_calls,
                  tools_changed, chat_count, sent_tools, dispatched, mutated, ret >>


(* --------------------------- the loop ---------------------------------- *)
\* the tool-call lists of length 1..MaxBatch the chat model can answer with;
\* the ids are fresh: those of turn t are t*MaxBatch+1 .. t*MaxBatch+MaxBatch
Batches(turn, room) ==
  UNION { { [i \in 1..n |-> [id |-> turn * MaxBatch + i, name |-> ks[i].name, args |-> ks[i].args]]
            : ks \in [1..n -> CallKinds] } : n \in 1..(IF room < MaxBatch THEN room ELSE MaxBatch) }

\* the tool-call ids the assistant messages of history msgs carry
RECURSIVE RequestedIds(_)
RequestedIds(msgs) ==
  IF msgs = << >> THEN {}
  ELSE {Head(msgs).tool_calls[i] : i \in 1..Len(Head(msgs).tool_calls)} \cup RequestedIds(Tail(msgs))

CallIds(batch) == [i \in 1..Len(batch) |-> batch[i].id]

\* the dict returned at "if finish_reason == 'stop'"
StopResult(assistant_message, m) ==
  [ keys |-> {"content", "active_servers", "available_tools", "full_response"},
    content |-> assistant_message.content, messages |-> << >>,
    active_servers |-> m.active_servers, available_tools |-> m.available_tools ]

\* the dict returned after the loop
MaxResult(msgs, m) ==
  [ keys |-> {"content", "messages", "active_servers", "available_tools", "full_response"},
    content |-> <<"Maximum iterations reached without completion">>, messages |-> msgs,
    active_servers |-> m.active_servers, available_tools |-> m.available_tools ]

\* AfterResponse with the test for stop left out: stop falls through to the
\* unexpected-finish break
AfterResponse_NoStopTest(fr, batch) ==
  IF fr = "tool_calls" /\ batch # << >> THEN "dispatch" ELSE "after_loop"

\* where the loop body goes once the assistant message is appended
AfterResponse(fr, batch) ==
  IF fr = "stop" THEN "returned_stop"
  ELSE IF fr = "tool_calls" /\ batch # << >> THEN "dispatch"
  ELSE "after_loop"

\* one request to the chat API and the interpretation of its response
AwaitModel ==
  /\ pc = "await_model"
  /\ UNCHANGED << aux, answers >>
  /\ chat_count' = chat_count + 1
  /\ sent_tools' = openai_tools
  /\ \E status \in {200, 500} :
       IF status # 200
         THEN /\ Raise("chat_api")
              /\ UNCHANGED << messages, finish_reason, tool_calls, tools_changed, ret >>
         ELSE \E fr \in FinishReasons :
              \E batch \in (IF fr = "tool_calls" THEN Batches(chat_count, MaxCalls - Cardinality(RequestedIds(messages))) \cup {<< >>} ELSE {<< >>}) :
                LET assistant_message ==
                      Msg("assistant", IF fr = "stop" THEN <<"final">> ELSE << >>, CallIds(batch), 0)
                IN /\ finish_reason' = fr
                   /\ messages' = Append(messages, assistant_message)
                   /\ pc' = AfterResponse(fr, batch)
                   /\ fault' = fault
                   /\ ret' = IF fr = "stop" THEN StopResult(assistant_message, mcp) ELSE ret
                   /\ tool_calls' = IF fr = "tool_calls" THEN batch ELSE tool_calls
                   /\ tools_changed' = IF fr = "tool_calls" /\ batch # << >> THEN FALSE ELSE tools_changed
  /\ UNCHANGED << mode, max_iterations, initial_servers, mcp, wire, gw, mcp_tools,
                  openai_tools, iteration, dispatched, mutated >>

\* the body of the try block for call tc: the world afterwards, whether it
\* raised, whether it set tools_changed, and result_text
Handle(w, tc, r1, r2, r3) ==
  IF tc.name = "mcp-find" THEN
    LET f == find_mcp_servers(w, r1) IN
    IF f.raised THEN [w |-> f.w, raised |-> TRUE, changed |-> FALSE, text |-> << >>]
    ELSE IF f.servers # << >> THEN
      LET a == add_mcp_servers(f.w, f.servers[1], r2, r3) IN
      IF a.raised THEN [w |-> a.w, raised |-> TRUE, changed |-> FALSE, text |-> << >>]
      ELSE [w |-> a.w, raised |-> FALSE, changed |-> TRUE, text |-> <<"servers">> \o f.servers]
    ELSE [w |-> f.w, raised |-> FALSE, changed |-> FALSE, text |-> <<"servers">>]
  ELSE IF tc.name = "code-mode" THEN
    LET c == create_dynamic_code_tool(w, tc.args, r1) IN
    [w |-> c.w, raised |-> c.raised, changed |-> ~c.raised, text |-> <<"text">>]
  ELSE IF tc.name = "mcp-exec" THEN
    LET e == execute_dynamic_code_tool(w, r1) IN
    [w |-> e.w, raised |-> e.raised, changed |-> FALSE, text |-> <<"text">>]
  ELSE
    LET g == call_tool(w, tc.name, tc.args, r1) IN
    [w |-> g.w, raised |-> g.raised, changed |-> FALSE, text |-> <<"text">>]

\* the handler of tc posts further requests after the one answered by r1
Followed(w, tc, r1) ==
  tc.name = "mcp-find" /\ find_mcp_servers(w, r1).servers # << >>

\* json.loads on the argument string of a tool call raises
ArgsUndecodable(tc) == tc.args = "bad"

\* NextCall taking the calls from the back of the list
NextCall_Last(tcs) == tcs[Len(tcs)]

\* the call one pass of "for tc in tool_calls" works on
NextCall(tcs) == Head(tcs)

\* ToolMessage without the id of the call
ToolMessage_NoId(h, id) ==
  Msg("tool", IF h.raised THEN <<"error">> ELSE h.text, << >>, 0)

\* the tool message a pass appends: result_text after the try body, the
\* error text after the except branch, under the id of the call either way
ToolMessage(h, id) ==
  Msg("tool", IF h.raised THEN <<"error">> ELSE h.text, << >>, id)

\* FlagAfter raising the flag whatever the call did
FlagAfter_Always(flag, changed) == TRUE

\* tools_changed after a pass: "tools_changed = True" is reached only in
\* the discovery branch that found a server and in the registration branch
FlagAfter(flag, changed) == flag \/ changed

\* one pass of "for tc in tool_calls"
DispatchCall ==
  /\ pc = "dispatch"
  /\ UNCHANGED << aux, answers >>
  /\ LET tc == NextCall(tool_calls) IN
     IF ArgsUndecodable(tc)
       THEN /\ Raise("args_decode")
            /\ UNCHANGED << mcp, wire, gw, messages, tool_calls, tools_changed, dispatched, mutated >>
       ELSE \E r1 \in Responses :
            \E r2 \in (IF Followed(World, tc, r1) THEN Responses ELSE {r1}) :
            \E r3 \in (IF Followed(World, tc, r1) THEN Responses ELSE {r1}) :
              LET h == Handle(World, tc, r1, r2, r3) IN
              /\ mcp' = h.w.mcp
              /\ wire' = h.w.wire
              /\ gw' = h.w.gw
              /\ messages' = Append(messages, ToolMessage(h, tc.id))
              /\ tools_changed' = FlagAfter(tools_changed, h.changed)
              /\ mutated' = (mutated \/ Catalog(h.w.gw) # Catalog(gw))
              /\ dispatched' = dispatched \cup {tc.id}
              /\ tool_calls' = Tail(tool_calls)
              /\ pc' = IF Tail(tool_calls) = << >> THEN "end_batch" ELSE "dispatch"
              /\ fault' = fault
  /\ UNCHANGED << mode, max_iterations, initial_servers, mcp_tools, openai_tools,
                  iteration, finish_reason, chat_count, sent_tools, ret >>

\* "if tools_changed": the catalog is fetched again and projected again
Refresh ==
  /\ pc = "end_batch"
  /\ UNCHANGED << aux, answers >>
  /\ tools_changed
  /\ \E resp \in Responses :
       LET l == list_tools(World, resp) IN
       /\ mcp' = l.w.mcp
       /\ wire' = l.w.wire
       /\ IF l.raised
            THEN /\ Raise("refresh")
                 /\ UNCHANGED << mcp_tools, openai_tools, iteration, mutated >>
            ELSE /\ mcp_tools' = l.tools
                 /\ openai_tools' = tool_schema_conversion(l.tools, mode)
                 /\ mutated' = FALSE
                 /\ LoopNext(iteration + 1)
                 /\ fault' = fault
  /\ UNCHANGED << mode, max_iterations, initial_servers, gw, messages, finish_reason,
                  tool_calls, tools_changed, chat_count, sent_tools, dispatched, ret >>

\* tools_changed is not set: straight to "continue"
NoRefresh ==
  /\ pc = "end_batch"
  /\ UNCHANGED << aux, answers >>
  /\ ~tools_changed
  /\ LoopNext(iteration + 1)
  /\ UNCHANGED << mode, max_iterations, initial_servers, mcp, wire, gw, mcp_tools,
                  openai_tools, messages, finish_reason, tool_calls, tools_changed,
                  chat_count, sent_tools, dispatched, mutated, fault, ret >>

\* the return statement after the loop; it reads data, which no statement
\* has bound when the loop body never ran
ReturnMax ==
  /\ pc = "after_loop"
  /\ UNCHANGED << aux, answers >>
  /\ IF finish_reason = "unbound"
       THEN Raise("unbound_data") /\ ret' = ret
       ELSE /\ pc' = "returned_max"
            /\ ret' = MaxResult(messages, mcp)
            /\ fault' = fault
  /\ UNCHANGED << mode, max_iterations, initial_servers, mcp, wire, gw, mcp_tools,
                  openai_tools, messages, iteration, finish_reason, tool_calls,
                  tools_changed, chat_count, sent_tools, dispatched, mutated >>

Next ==
  \/ Initialize
  \/ AddInitial
  \/ ListInitial
  \/ AwaitModel
  \/ DispatchCall
  \/ Refresh
  \/ NoRefresh
  \/ ReturnMax

Spec == Init /\ [][Next]_vars

(* ------------- the client, driven operation by operation --------------- *)
\* a client on its own: any caller may invoke initialize, list_tools and
\* call_tool in any order
InitClient ==
  /\ pc = "client"
  /\ mode = "default"
  /\ max_iterations = 0
  /\ initial_servers = << >>
  /\ mcp \in {NewClient(d, d) : d \in BOOLEAN}
  /\ wire = << >>
  /\ gw = [servers |-> {}, custom |-> FALSE]
  /\ mcp_tools = << >>
  /\ openai_tools = << >>
  /\ messages = << >>
  /\ iteration = 0
  /\ finish_reason = "unbound"
  /\ tool_calls = << >>
  /\ tools_changed = FALSE
  /\ chat_count = 0
  /\ sent_tools = << >>
  /\ dispatched = {}
  /\ mutated = FALSE
  /\ fault = "none"
  /\ ret = NoRet
  /\ AuxIdle
  /\ answers = << >>

ClientFrame ==
  UNCHANGED << pc, mode, max_iterations, initial_servers, openai_tools, messages,
               iteration, finish_reason, tool_calls, tools_changed, chat_count,
               sent_tools, dispatched, mutated, ret >>

\* fault records whether the last operation raised
ClientInitialize ==
  /\ pc = "client"
  /\ UNCHANGED << aux, answers >>
  /\ Len(wire) < MaxRequests
  /\ \E status \in {200, 500}, header \in {Token, None}, body \in Responses, notif_status \in {200, 500} :
       LET r == initialize(World, status, header, body, notif_status) IN
       /\ mcp' = r.w.mcp
       /\ wire' = r.w.wire
       /\ fault' = IF r.raised THEN "handshake" ELSE "none"
  /\ UNCHANGED << gw, mcp_tools >>
  /\ ClientFrame

ClientListTools ==
  /\ pc = "client"
  /\ UNCHANGED << aux, answers >>
  /\ Len(wire) < MaxRequests
  /\ \E resp \in Responses :
       LET l == list_tools(World, resp) IN
       /\ mcp' = l.w.mcp
       /\ wire' = l.w.wire
       /\ mcp_tools' = IF l.raised THEN mcp_tools ELSE l.tools
       /\ fault' = IF l.raised THEN "list_tools" ELSE "none"
  /\ UNCHANGED gw
  /\ ClientFrame

ClientCallTool ==
  /\ pc = "client"
  /\ UNCHANGED << aux, answers >>
  /\ Len(wire) < MaxRequests
  /\ \E name \in {"wiki", "mcp-add", "code-mode"}, resp \in Responses :
       LET r == call_tool(World, name, "s1", resp) IN
       /\ mcp' = r.w.mcp
       /\ wire' = r.w.wire
       /\ gw' = r.w.gw
       /\ fault' = IF r.raised THEN "call_tool" ELSE "none"
  /\ UNCHANGED mcp_tools
  /\ ClientFrame

NextClient ==
  \/ ClientInitialize
  \/ ClientListTools
  \/ ClientCallTool

SpecClient == InitClient /\ [][NextClient]_vars


(* ------------------------------ claims --------------------------------- *)
\* the number of tool-result messages of history msgs that answer call id
RECURSIVE ToolResults(_, _)
ToolResults(msgs, id) ==
  IF msgs = << >> THEN 0
  ELSE (IF Head(msgs).role = "tool" /\ Head(msgs).tool_call_id = id THEN 1 ELSE 0)
       + ToolResults(Tail(msgs), id)

\* the JSON-RPC ids of the requests on the wire, in issue order
\* (a notification carries none)
RpcIds(w) == LET rs == SelectSeq(w, LAMBDA r : r.method # "notifications/initialized")
             IN [i \in 1..Len(rs) |-> rs[i].id]

\* C1: whenever the run is not in the middle of a batch, every tool-call id
\* an assistant message carries is answered by exactly one tool-result
\* message, whatever way the call failed.
C1_EveryCallIdAnswered ==
  pc # "dispatch" => \A id \in RequestedIds(messages) : ToolResults(messages, id) = 1

\* C2: the JSON-RPC ids of the requests of one client start at 1 and are
\* strictly increasing in issue order, so none is used twice, also when
\* requests fail.
C2_IdsStrictlyIncreasing ==
  LET ids == RpcIds(wire) IN
  /\ ids # << >> => ids[1] = 1
  /\ \A i \in 1..Len(ids) : \A j \in 1..Len(ids) : i < j => ids[i] < ids[j]

\* C2 witness: three requests with ids were issued and the last operation,
\* a call_tool, failed.
C2_Witness == Len(RpcIds(wire)) >= 3 /\ fault = "call_tool" /\ mcp.next_id = 4

\* C3: at every request to the chat API no change a dispatched call made to
\* the gateway's catalog is left un-fetched, and the schema set sent is the
\* projection of the gateway's current catalog.
C3_NoStaleSchemas ==
  pc = "await_model" =>
    /\ ~mutated
    /\ openai_tools = tool_schema_conversion(Catalog(gw), mode)

\* every model turn so far answered with a request for tool calls
AllTurnsRequestTools ==
  /\ fault # "chat_api"
  /\ \A i \in 1..Len(messages) :
       messages[i].role = "assistant" => messages[i].tool_calls # << >>

\* C4: a run whose every model turn requests tool calls ends having made
\* exactly max_iterations chat requests and returns the max-iterations
\* variant.
C4_ExactlyNTurns ==
  (pc \in Terminal /\ messages # << >> /\ AllTurnsRequestTools) =>
    (chat_count = max_iterations /\ pc = "returned_max")

\* C5: when the loop runs out of iterations the run returns, it does not
\* raise, and what it returns carries the history under a key the result of
\* a normal completion does not have.
C5_ExhaustionReturns ==
  (pc \in Terminal /\ messages # << >> /\ iteration = max_iterations) =>
    /\ pc = "returned_max"
    /\ "messages" \in ret.keys
    /\ ret.messages = messages

\* C6: a run that ended on a finish signal other than stop and tool_calls
\* reports neither the normal completion nor the max-iterations variant.
C6_UnexpectedFinishFails ==
  (pc \in Terminal /\ finish_reason \notin {"stop", "tool_calls", "unbound"}) =>
    pc \notin {"returned_stop", "returned_max"}

C8_TokenBeforeRequests ==
  \A i \in 1..Len(wire) : wire[i].method # "initialize" => wire[i].sid = Token

\* C9: a run that reached its first model turn ends by raising only when
\* the handshake, the model's finish signal or the chat API request is what
\* failed.
C9_OnlyThreeAborts ==
  (pc = "raised" /\ chat_count > 0) => fault \in {"handshake", "finish_signal", "chat_api"}

\* C10: when the processing of a batch is over, no call that came after a
\* failing call is left without having reached its handler.
C10_LaterCallsDispatched ==
  pc # "dispatch" => \A i \in 2..Len(tool_calls) : tool_calls[i].id \in dispatched


\* C11: the tool-result messages that follow an assistant message answer its
\* tool calls in the order of its tool-call list: the k-th result carries
\* the id of the k-th call.
C11_ResultsInRequestOrder ==
  \A i \in 1..Len(messages) :
    messages[i].role = "assistant" =>
      \A k \in 1..(Len(messages) - i) :
        (\A j \in 1..k : messages[i + j].role = "tool") =>
          /\ k <= Len(messages[i].tool_calls)
          /\ messages[i + k].tool_call_id = messages[i].tool_calls[k]

\* C11 witness: a batch of two calls was processed, the first failed and
\* the second succeeded.
C11_Witness ==
  /\ pc = "end_batch"
  /\ Len(messages) = 5
  /\ messages[3].tool_calls = <<1, 2>>
  /\ messages[4].content = <<"error">>
  /\ messages[5].content = <<"text">>


\* C12: a discovery (mcp-find) call that finds candidates attempts to
\* activate the first candidate only, and its tool-result message holds the
\* full candidate list whatever the activation did, a raise included.
C12_FindReportsCandidates ==
  [][ ( /\ pc = "dispatch"
        /\ ~ArgsUndecodable(NextCall(tool_calls))
        /\ NextCall(tool_calls).name = "mcp-find"
        /\ Len(wire') >= Len(wire) + 2 )
      => /\ wire'[Len(wire) + 2].method = "tools/call"
         /\ gw'.servers \subseteq gw.servers \cup {FoundServers[1]}
         /\ messages'[Len(messages')].content = <<"servers">> \o FoundServers ]_vars


(* ------------------- startup with several initial servers -------------- *)
\* the initial_servers arguments startup is run with
StartupServerLists == {<<"s1">>, <<"s1", "s2">>, <<"s2", "s1">>}

InitStartup ==
  /\ pc = "start"
  /\ mode \in Modes
  /\ max_iterations \in 0..MaxIter
  /\ initial_servers \in StartupServerLists
  /\ mcp \in {NewClient(d, d) : d \in BOOLEAN}
  /\ wire = << >>
  /\ gw = [servers |-> {}, custom |-> FALSE]
  /\ mcp_tools = << >>
  /\ openai_tools = << >>
  /\ messages = << >>
  /\ iteration = 0
  /\ finish_reason = "unbound"
  /\ tool_calls = << >>
  /\ tools_changed = FALSE
  /\ chat_count = 0
  /\ sent_tools = << >>
  /\ dispatched = {}
  /\ mutated = FALSE
  /\ fault = "none"
  /\ ret = NoRet
  /\ AuxIdle
  /\ answers = << >>

\* the statements of gpt_with_mcp up to the first model turn
NextStartup ==
  \/ Initialize
  \/ AddInitial
  \/ ListInitial

SpecStartup == InitStartup /\ [][NextStartup]_vars

\* C13: at startup the activation of one initial server failing does not
\* end the run, and every server of the list is attempted before startup
\* goes on to the first catalog fetch or ends.
C13_InitialServersIndependent ==
  /\ fault # "initial_server"
  /\ (pc \notin {"start", "add_initial"} /\ fault # "handshake") => initial_servers = << >>


\* C14: call_tool sends a tools/call only for a name of the current tool
\* registry; while the registry is empty (no catalog fetched yet) every
\* name is unknown, so the gateway has seen no tools/call.
C14_UnknownToolNotSent ==
  (\E i \in 1..Len(wire) : wire[i].method = "tools/call") => mcp.available_tools # {}


(* ---------------------- the pure functions on their own ---------------- *)
\* the variables of a run that the specifications below never touch
rest == << max_iterations, initial_servers, gw, messages, iteration, finish_reason,
           tool_calls, tools_changed, chat_count, sent_tools, dispatched, mutated,
           fault, ret, answers >>

\* no run is under way; pc stands at position at
RestIdle(at) ==
  /\ pc = at
  /\ max_iterations = 0
  /\ initial_servers = << >>
  /\ gw = [servers |-> {}, custom |-> FALSE]
  /\ messages = << >>
  /\ iteration = 0
  /\ finish_reason = "unbound"
  /\ tool_calls = << >>
  /\ tools_changed = FALSE
  /\ chat_count = 0
  /\ sent_tools = << >>
  /\ dispatched = {}
  /\ mutated = FALSE
  /\ fault = "none"
  /\ ret = NoRet
  /\ answers = << >>

\* the lines a response text is made of
SseLines ==
  { EventLine, Line("data", "result"), Line("data", "error"), Line("data", "malformed") }

\* the response texts of up to MaxLines lines
ResponseTexts == UNION { [1..n -> SseLines] : n \in 0..MaxLines }

InitParse ==
  /\ RestIdle("parse")
  /\ mode = "default"
  /\ mcp = NewClient(FALSE, FALSE)
  /\ wire = << >>
  /\ mcp_tools = << >>
  /\ openai_tools = << >>
  /\ response_text \in ResponseTexts
  /\ data = None
  /\ inflight = << >>
  /\ clients = << >>
  /\ runs = << >>

\* data = parse_sse_json(response_text)
Parse ==
  /\ pc = "parse"
  /\ data' = parse_sse_json(response_text)
  /\ pc' = "parsed"
  /\ UNCHANGED << max_iterations, initial_servers, gw, messages, iteration, finish_reason,
                  tool_calls, tools_changed, chat_count, sent_tools, dispatched, mutated,
                  fault, ret, mode, mcp, wire, mcp_tools, openai_tools,
                  response_text, inflight, clients, runs, answers >>

NextParse == Parse

SpecParse == InitParse /\ [][NextParse]_vars

\* the positions of the data lines of text t, and of those that decode
DataLines(t) == { i \in 1..Len(t) : t[i].field = "data" }

DecodableLines(t) == { i \in DataLines(t) : t[i].value # "malformed" }

\* the least position of a non-empty set of positions
First(positions) == CHOOSE i \in positions : \A j \in positions : i <= j

\* C15 as stated: parse_sse_json returns the payload of the first data line
\* that decodes, skipping malformed data lines, and None only when no data
\* line decodes.
C15_FirstDecodablePayload ==
  pc = "parsed" =>
    data = IF DecodableLines(response_text) = {} THEN None
           ELSE response_text[First(DecodableLines(response_text))].value

\* C15 amended: parse_sse_json looks at the first data line only: it
\* returns that line's payload when it decodes, and None when it is
\* malformed (whatever follows) or when there is no data line.
C15_FirstDataLineOnly ==
  pc = "parsed" =>
    data = IF DataLines(response_text) = {} THEN None
           ELSE IF response_text[First(DataLines(response_text))].value = "malformed" THEN None
           ELSE response_text[First(DataLines(response_text))].value

\* C15 witness: the first data line is malformed, a later one decodes, and
\* the call returned None.
C15_Witness ==
  /\ pc = "parsed"
  /\ DecodableLines(response_text) # {}
  /\ First(DataLines(response_text)) < First(DecodableLines(response_text))
  /\ data = None


(* ------------------------- the projection alone ------------------------ *)
\* the names a catalog entry can carry; "" is an entry without a name
ToolNames == {"wiki", "mcp-find", "code-mode", "mcp-exec", "code-mode-x", ""}

\* the catalogs of up to MaxCatalog entries, names unique within a catalog
Catalogs ==
  { c \in UNION { [1..n -> ToolNames] : n \in 0..MaxCatalog } :
      \A i, j \in 1..Len(c) : c[i] = c[j] => i = j }

InitProject ==
  /\ RestIdle("project")
  /\ mode \in Modes
  /\ mcp = NewClient(FALSE, FALSE)
  /\ wire = << >>
  /\ mcp_tools \in Catalogs
  /\ openai_tools = << >>
  /\ AuxIdle

\* openai_tools = tool_schema_conversion(mcp_tools, mode=mode)
Project ==
  /\ pc = "project"
  /\ openai_tools' = tool_schema_conversion(mcp_tools, mode)
  /\ pc' = "projected"
  /\ UNCHANGED << rest, mode, mcp, wire, mcp_tools, aux >>

NextProject == Project

SpecProject == InitProject /\ [][NextProject]_vars

\* the names of a sequence of tools
Names(tools) == { tools[i] : i \in 1..Len(tools) }

\* the three meta-tools
MetaTools == {"mcp-find", "code-mode", "mcp-exec"}

\* the name carries the prefix of the custom tools
HasCustomPrefix(name) == name = "code-mode-x"

\* a named tool that is neither a meta-tool nor a custom tool
Ordinary(name) == name # "" /\ name \notin MetaTools /\ ~HasCustomPrefix(name)

\* the tools of out come in the order they have in catalog cat
InCatalogOrder(out, cat) ==
  \A i, j \in 1..Len(out) :
    i < j => \E k, l \in 1..Len(cat) : k < l /\ cat[k] = out[i] /\ cat[l] = out[j]

\* C16: in mode default the projection holds exactly the catalog tools that
\* are neither meta-tools nor custom-prefixed, in catalog order.
C16_DefaultHidesMetaAndCustom ==
  (pc = "projected" /\ mode = "default") =>
    /\ Names(openai_tools) = { n \in Names(mcp_tools) : Ordinary(n) }
    /\ InCatalogOrder(openai_tools, mcp_tools)

\* C17: in mode dynamic the projection holds mcp-find and every ordinary
\* catalog tool, and holds neither code-mode nor mcp-exec.
C17_DynamicExposesFindAndOrdinary ==
  (pc = "projected" /\ mode = "dynamic") =>
    /\ \A n \in Names(mcp_tools) : (n = "mcp-find" \/ Ordinary(n)) => n \in Names(openai_tools)
    /\ "code-mode" \notin Names(openai_tools)
    /\ "mcp-exec" \notin Names(openai_tools)

\* C18 as stated: in mode code the projection holds exactly code-mode,
\* mcp-exec and the custom-prefixed catalog tools; ordinary tools and
\* mcp-find are hidden.
C18_CodeExposesCustomTools ==
  (pc = "projected" /\ mode = "code") =>
    Names(openai_tools) =
      { n \in Names(mcp_tools) : n \in {"code-mode", "mcp-exec"} \/ HasCustomPrefix(n) }

\* C18 amended: in mode code the projection holds exactly the catalog tools
\* named mcp-find, code-mode or mcp-exec, in catalog order; ordinary tools
\* and custom-prefixed tools are hidden.
C18_CodeExposesMetaTools ==
  (pc = "projected" /\ mode = "code") =>
    /\ Names(openai_tools) = Names(mcp_tools) \cap MetaTools
    /\ InCatalogOrder(openai_tools, mcp_tools)
    /\ Len(openai_tools) = Cardinality(Names(openai_tools))

\* C18 witness: a catalog with mcp-find, a custom tool and a meta-tool of
\* code mode was projected in mode code; mcp-find came out, the custom
\* tool did not.
C18_Witness ==
  /\ pc = "projected"
  /\ mode = "code"
  /\ {"mcp-find", "code-mode-x", "mcp-exec"} \subseteq Names(mcp_tools)
  /\ "mcp-find" \in Names(openai_tools)
  /\ "code-mode-x" \notin Names(openai_tools)


(* --------------- operations of one client, interleaved ----------------- *)
\* Each of MaxConc tasks runs list_tools or call_tool on the one client. A
\* task runs without interruption from one await to the next: it builds its
\* payload and increments the counter ("built"), its POST reaches the
\* gateway ("posted"), and its response comes back ("idle" again).
Tasks == 1..MaxConc

IdleTask == [at |-> "idle", method |-> "none", id |-> 0]

InitConc ==
  /\ RestIdle("conc")
  /\ mode = "default"
  /\ mcp = NewClient(FALSE, FALSE)
  /\ wire = << >>
  /\ mcp_tools = << >>
  /\ openai_tools = << >>
  /\ response_text = << >>
  /\ data = None
  /\ inflight = [t \in Tasks |-> IdleTask]
  /\ clients = << >>
  /\ runs = << >>

\* BeforeAwait with the increment left out
BeforeAwait_NoIncrement(m, method) ==
  [mcp |-> m, request |-> Request(method, m.next_id, m.session_id)]

\* the statements of list_tools and of call_tool before their await: the
\* payload takes _next_id, the counter is incremented, the headers are set
BeforeAwait(m, method) ==
  [mcp |-> TakeId(m), request |-> Request(method, m.next_id, m.session_id)]

\* the requests built or posted and not yet answered
Pending == { t \in Tasks : inflight[t].at \in {"built", "posted"} }

\* a task enters list_tools or call_tool and runs up to the await
Begin ==
  /\ pc = "conc"
  /\ Len(wire) + Cardinality({ t \in Tasks : inflight[t].at = "built" }) < MaxRequests
  /\ \E t \in Tasks, method \in {"tools/list", "tools/call"} :
       /\ inflight[t].at = "idle"
       /\ LET b == BeforeAwait(mcp, method) IN
          /\ mcp' = b.mcp
          /\ inflight' = [inflight EXCEPT ![t] =
               [at |-> "built", method |-> method, id |-> b.request.id]]
  /\ UNCHANGED << rest, pc, mode, wire, mcp_tools, openai_tools,
                  response_text, data, clients, runs >>

\* the POST of a suspended task reaches the gateway
Post ==
  /\ pc = "conc"
  /\ \E t \in Tasks :
       /\ inflight[t].at = "built"
       /\ wire' = Append(wire, Request(inflight[t].method, inflight[t].id, mcp.session_id))
       /\ inflight' = [inflight EXCEPT ![t].at = "posted"]
  /\ UNCHANGED << rest, pc, mode, mcp, mcp_tools, openai_tools,
                  response_text, data, clients, runs >>

\* the response of a posted request arrives and is parsed (data); the task
\* runs to its end
Complete ==
  /\ pc = "conc"
  /\ \E t \in Tasks, resp \in Responses :
       /\ inflight[t].at = "posted"
       /\ data' = parse_sse_json(resp)
       /\ response_text' = resp
       /\ inflight' = [inflight EXCEPT ![t] = IdleTask]
  /\ UNCHANGED << max_iterations, initial_servers, gw, messages, iteration, finish_reason,
                  tool_calls, tools_changed, chat_count, sent_tools, dispatched, mutated,
                  ret, fault, pc, mode, mcp, wire, mcp_tools, openai_tools, clients, runs,
                  answers >>

NextConc ==
  \/ Begin
  \/ Post
  \/ Complete

SpecConc == InitConc /\ [][NextConc]_vars

\* C19: whatever the interleaving of the operations in flight on one
\* client, no two requests carry the same JSON-RPC id: not two pending
\* ones, and not two that reached the gateway.
C19_ConcurrentIdsDistinct ==
  /\ \A t, u \in Pending : t # u => inflight[t].id # inflight[u].id
  /\ \A i, j \in 1..Len(wire) : i # j => wire[i].id # wire[j].id
  /\ \A t \in Pending : inflight[t].id < mcp.next_id

\* C19 witness: two call_tool operations are suspended at their await at
\* the same time, and the later-built request reached the gateway first.
C19_Witness ==
  /\ \E t, u \in Pending :
       /\ t # u
       /\ inflight[t].method = "tools/call"
       /\ inflight[u].method = "tools/call"
       /\ inflight[t].at = "posted"
       /\ inflight[u].at = "posted"
  /\ \E i, j \in 1..Len(wire) : i < j /\ wire[i].id > wire[j].id


(* -------------------------- two runs side by side ---------------------- *)
\* Two calls of gpt_with_mcp, interleaved at their awaits. runs[r] holds the
\* locals of run r (mcp_tools, openai_tools, messages and where it stands),
\* clients[c] the attributes of client object c.
Runs == {1, 2}

\* ClientOf naming one process-wide client for every run
ClientOf_Singleton(r) == 1

\* the client object run r works with: "mcp = MCPGatewayClient()" makes a
\* new object in each call
ClientOf(r) == r

\* the world run r acts on
RunWorld(r) == [mcp |-> clients[ClientOf(r)], wire |-> << >>, gw |-> gw]

NewRun(m) ==
  [at |-> "start", mode |-> m, mcp_tools |-> << >>, openai_tools |-> << >>,
   messages |-> << >>]

InitRuns ==
  /\ RestIdle("two_runs")
  /\ mode = "default"
  /\ mcp = NewClient(FALSE, FALSE)
  /\ wire = << >>
  /\ mcp_tools = << >>
  /\ openai_tools = << >>
  /\ response_text = << >>
  /\ data = None
  /\ inflight = << >>
  /\ clients = [c \in Runs |-> NewClient(FALSE, FALSE)]
  /\ runs \in [Runs -> {NewRun(m) : m \in {"default", "dynamic"}}]

RunsFrame ==
  UNCHANGED << rest, pc, mode, mcp, wire, mcp_tools, openai_tools,
               response_text, data, inflight >>

\* run r: "await mcp.initialize(client)"
RunInitialize ==
  /\ pc = "two_runs"
  /\ \E r \in Runs, status \in {200, 500}, header \in {Token, None}, body \in Responses :
       LET i == initialize(RunWorld(r), status, header, body, 200) IN
       /\ runs[r].at = "start"
       /\ clients' = [clients EXCEPT ![ClientOf(r)] = i.w.mcp]
       /\ runs' = [runs EXCEPT ![r].at = IF i.raised THEN "raised" ELSE "list"]
  /\ RunsFrame

\* run r: the first list_tools, the projection and the seeding of messages
RunListTools ==
  /\ pc = "two_runs"
  /\ \E r \in Runs, resp \in Responses :
       LET l == list_tools(RunWorld(r), resp) IN
       /\ runs[r].at = "list"
       /\ clients' = [clients EXCEPT ![ClientOf(r)] = l.w.mcp]
       /\ runs' = [runs EXCEPT ![r] =
            IF l.raised THEN [@ EXCEPT !.at = "raised"]
            ELSE [@ EXCEPT !.at = "loop",
                           !.mcp_tools = l.tools,
                           !.openai_tools = tool_schema_conversion(l.tools, runs[r].mode),
                           !.messages = << Msg("system", <<"system", runs[r].mode>>, << >>, 0),
                                           Msg("user", <<"user_message">>, << >>, 0) >>]]
  /\ RunsFrame

\* run r: a model turn that requests one ordinary tool, and its dispatch
RunCallTool ==
  /\ pc = "two_runs"
  /\ \E r \in Runs, resp \in Responses :
       LET g == call_tool(RunWorld(r), "wiki", "ok", resp) IN
       /\ runs[r].at = "loop"
       /\ Len(runs[r].messages) < 2 + 2 * MaxCalls
       /\ clients' = [clients EXCEPT ![ClientOf(r)] = g.w.mcp]
       /\ runs' = [runs EXCEPT ![r].messages =
            @ \o << Msg("assistant", << >>, <<1>>, 0),
                    Msg("tool", IF g.raised THEN <<"error">> ELSE <<"text">>, << >>, 1) >>]
  /\ RunsFrame

NextRuns ==
  \/ RunInitialize
  \/ RunListTools
  \/ RunCallTool

SpecRuns == InitRuns /\ [][NextRuns]_vars

\* what run r owns: its client (session token, request-id counter) and its
\* locals (catalog snapshot, schema set, message history)
Owned(r) == << clients[ClientOf(r)], runs[r] >>

OwnedNext(r) == << clients'[ClientOf(r)], runs'[r] >>

\* C20: two interleaved runs share no mutable state: a step changes what at
\* most one run owns, so no step of one run changes the session token, the
\* counter, the catalog, the schema set or the history of the other.
C20_RunsShareNothing ==
  [][ Cardinality({ r \in Runs : OwnedNext(r) # Owned(r) }) <= 1 ]_vars

\* C20 witness: both runs are in their loop and have gone different ways:
\* different session tokens, counters and histories.
C20_Witness ==
  /\ runs[1].at = "loop"
  /\ runs[2].at = "loop"
  /\ clients[ClientOf(1)].session_id # clients[ClientOf(2)].session_id
  /\ clients[ClientOf(1)].next_id # clients[ClientOf(2)].next_id
  /\ Len(runs[1].messages) > Len(runs[2].messages)
  /\ runs[1].openai_tools # runs[2].openai_tools


(* ------------------------ the order of startup ------------------------- *)
\* the positions of the requests of method m on the wire
Posted(m) == { i \in 1..Len(wire) : wire[i].method = m }

\* the gateway accepted the initialize request: 2xx and a body that decodes
InitializeAccepted == Len(answers) >= 1 /\ answers[1].status = 200 /\ answers[1].decoded

\* the gateway accepted the notification as well
HandshakeAccepted == InitializeAccepted /\ Len(answers) = 2 /\ answers[2].status = 200

\* C21: startup is ordered and a failed handshake ends the run: initialize
\* is the first request and is posted once; the notification is posted only
\* after an accepted initialize response; tools/list, tools/call and the
\* chat API are used only after the notification was accepted; and after a
\* refused handshake the run has raised and has used none of them.
C21_StartupOrdered ==
  /\ wire # << >> => Posted("initialize") = {1}
  /\ Posted("notifications/initialized") \subseteq {2}
  /\ Posted("notifications/initialized") # {} => InitializeAccepted
  /\ (Posted("tools/list") \cup Posted("tools/call") # {} \/ chat_count > 0)
       => HandshakeAccepted /\ Posted("notifications/initialized") = {2}
  /\ (answers # << >> /\ ~HandshakeAccepted)
       => /\ pc = "raised"
          /\ fault = "handshake"
          /\ Len(wire) = Len(answers)
          /\ chat_count = 0

\* C21 witness: the initialize response was accepted, the notification was
\* refused and the run raised after those two requests.
C21_Witness ==
  /\ pc = "raised"
  /\ InitializeAccepted
  /\ Len(answers) = 2
  /\ answers[2].status = 500
  /\ Len(wire) = 2


\* C22: the session token is populated only by a successful handshake:
\* after a handshake that failed (non-2xx initialize response, undecodable
\* body or refused notification) the client's session_id is still empty.
C22_TokenOnlyAfterHandshake ==
  (answers # << >> /\ ~HandshakeAccepted) => mcp.session_id = None


(* ---------------------- batches that change nothing -------------------- *)
\* the pass from the state to its successor worked on a call that does not
\* alter the catalog: a generic or an execution call, a discovery call that
\* found no server, or a call that failed
NotAltering ==
  /\ pc = "dispatch"
  /\ pc' # "raised"
  /\ \/ NextCall(tool_calls).name \notin {"mcp-find", "code-mode"}
     \/ messages'[Len(messages')].content \in { <<"error">>, <<"servers">> }

\* C23: a call that does not alter the catalog leaves tools_changed as it
\* was; the flag starts every batch unset; after a batch that left it unset
\* no tools/list is posted and the catalog and the schema set stay as they
\* were, so the next chat request carries the schema set of the previous one.
C23_QuietBatchNoRefresh ==
  [][ /\ NotAltering => tools_changed' = tools_changed
      /\ (pc = "await_model" /\ pc' = "dispatch") => ~tools_changed'
      /\ (pc = "end_batch" /\ ~tools_changed)
           => wire' = wire /\ mcp_tools' = mcp_tools /\ openai_tools' = openai_tools
      /\ (pc = "await_model" /\ chat_count > 0 /\ ~tools_changed)
           => sent_tools' = sent_tools ]_vars

\* C23 witness: a second chat request was made after a batch whose calls
\* reached the gateway, and the only tools/list so far is the one of startup.
C23_Witness ==
  /\ chat_count = 2
  /\ fault = "none"
  /\ Posted("tools/call") # {}
  /\ Cardinality(Posted("tools/list")) = 1
  /\ sent_tools = openai_tools


(* ------------------------- the message history ------------------------- *)
\* history msgs opens with the system message and the user message; every
\* tool message answers a call of the assistant message before it, with
\* only tool messages in between; and every call of every assistant message
\* is answered after it
WellFormed(msgs) ==
  /\ Len(msgs) >= 2
  /\ msgs[1].role = "system"
  /\ msgs[2].role = "user"
  /\ \A i \in 1..Len(msgs) :
       msgs[i].role = "tool" =>
         \E j \in 1..(i - 1) :
           /\ msgs[j].role = "assistant"
           /\ \E k \in 1..Len(msgs[j].tool_calls) : msgs[j].tool_calls[k] = msgs[i].tool_call_id
           /\ \A n \in (j + 1)..(i - 1) : msgs[n].role = "tool"
  /\ \A j \in 1..Len(msgs) :
       msgs[j].role = "assistant" =>
         \A k \in 1..Len(msgs[j].tool_calls) :
           \E i \in (j + 1)..Len(msgs) :
             msgs[i].role = "tool" /\ msgs[i].tool_call_id = msgs[j].tool_calls[k]

\* C24: the history only grows by appending, and the history of every chat
\* request is well formed: system then user first, every tool message
\* between the assistant message that carries its id and the next assistant
\* message, and no call id left unanswered when a further turn is requested.
C24_HistoryAppendOnlyWellFormed ==
  [][ /\ Len(messages') >= Len(messages)
      /\ SubSeq(messages', 1, Len(messages)) = messages
      /\ pc = "await_model" => WellFormed(messages) ]_vars

\* C24 witness: a chat request is about to be made with a history that
\* holds a batch of two calls and their two results.
C24_Witness ==
  /\ pc = "await_model"
  /\ Len(messages) = 5
  /\ messages[3].tool_calls = <<1, 2>>
  /\ messages[4].role = "tool"
  /\ messages[5].role = "tool"

====
